---- MODULE Spec2Model ----
(***************************************************************************)
(* A model of pyGAPS' BET surface area calculation (calculations/bet.py)   *)
(* and of the Henry and Virial isotherm models                             *)
(* (calculations/models_isotherm).                                         *)
(*                                                                         *)
(* Floating point numbers are modelled as exact rationals extended with    *)
(* the IEEE special values (nan, +inf, -inf, -0).  Python's 0-based        *)
(* indices are kept as the code computes them; At and Slice translate them *)
(* to TLA+ sequences.                                                      *)
(***************************************************************************)
EXTENDS Integers, Sequences, FiniteSets, TLC

VARIABLES
    isotherm,   \* the caller's isotherm object handed to area_BET
    call,       \* what the last area_BET invocation did and returned
    rawargs,    \* the arguments of an area_BET_raw invocation
    rawret,     \* what that area_BET_raw invocation did and returned
    models,     \* the params mapping of every isotherm model instance
    last        \* the last operation invoked on a model instance

vars == <<isotherm, call, rawargs, rawret, models, last>>

----------------------------------------------------------------------------
(* Bounds of the model *)

\* longest loading / pressure array handed to area_BET_raw
MaxLen == 4
\* longest data set of an isotherm handed to area_BET
MaxIsoLen == 4

----------------------------------------------------------------------------
(* Floats: exact rationals n/d (d > 0, lowest terms) plus IEEE specials *)

Abs(i) == IF i < 0 THEN -i ELSE i

RECURSIVE GCD(_, _)
GCD(a, b) == IF b = 0 THEN a ELSE GCD(b, a % b)

Fin(n, d) ==
    LET g == GCD(Abs(n), d)
    IN [k |-> "fin", n |-> n \div g, d |-> d \div g]

NaN     == [k |-> "nan",   n |-> 0, d |-> 1]
PosInf  == [k |-> "inf",   n |-> 0, d |-> 1]
NegInf  == [k |-> "ninf",  n |-> 0, d |-> 1]
NegZero == [k |-> "nzero", n |-> 0, d |-> 1]
Zero    == Fin(0, 1)
One     == Fin(1, 1)

Int2F(i) == Fin(i, 1)

IsNaN(x)    == x.k = "nan"
IsInf(x)    == x.k \in {"inf", "ninf"}
IsZero(x)   == x.k = "nzero" \/ (x.k = "fin" /\ x.n = 0)
IsFinite(x) == x.k \in {"fin", "nzero"}

\* the sign bit: -1 or 1 (also of a zero)
FSign(x) ==
    IF x.k \in {"ninf", "nzero"} \/ (x.k = "fin" /\ x.n < 0) THEN -1 ELSE 1

SignedZero(s) == IF s < 0 THEN NegZero ELSE Zero
SignedInf(s)  == IF s < 0 THEN NegInf ELSE PosInf

FNeg(x) ==
    CASE x.k = "nan"   -> NaN
      [] x.k = "inf"   -> NegInf
      [] x.k = "ninf"  -> PosInf
      [] x.k = "nzero" -> Zero
      [] OTHER         -> IF x.n = 0 THEN NegZero ELSE Fin(-x.n, x.d)

FMul(a, b) ==
    LET s == FSign(a) * FSign(b)
    IN  IF IsNaN(a) \/ IsNaN(b) THEN NaN
        ELSE IF IsInf(a) \/ IsInf(b)
             THEN IF IsZero(a) \/ IsZero(b) THEN NaN ELSE SignedInf(s)
        ELSE IF IsZero(a) \/ IsZero(b) THEN SignedZero(s)
        ELSE LET g1 == GCD(Abs(a.n), b.d)
                 g2 == GCD(Abs(b.n), a.d)
             IN  Fin((a.n \div g1) * (b.n \div g2), (a.d \div g2) * (b.d \div g1))

FDiv(a, b) ==
    LET s == FSign(a) * FSign(b)
    IN  IF IsNaN(a) \/ IsNaN(b) THEN NaN
        ELSE IF IsInf(a) THEN (IF IsInf(b) THEN NaN ELSE SignedInf(s))
        ELSE IF IsInf(b) THEN SignedZero(s)
        ELSE IF IsZero(b) THEN (IF IsZero(a) THEN NaN ELSE SignedInf(s))
        ELSE IF IsZero(a) THEN SignedZero(s)
        ELSE FMul(a, Fin(s * FSign(a) * b.d, Abs(b.n)))

FAdd(a, b) ==
    IF IsNaN(a) \/ IsNaN(b) THEN NaN
    ELSE IF IsInf(a) THEN (IF IsInf(b) /\ a.k # b.k THEN NaN ELSE a)
    ELSE IF IsInf(b) THEN b
    ELSE IF a.k = "nzero" /\ b.k = "nzero" THEN NegZero
    ELSE LET g == GCD(a.d, b.d)
             l == (a.d \div g) * b.d
         IN  Fin(a.n * (l \div a.d) + b.n * (l \div b.d), l)

FSub(a, b) == FAdd(a, FNeg(b))

\* a/b < c/d for a, c >= 0 and b, d > 0, by continued fractions (the cross
\* products need not fit a machine integer)
RECURSIVE LessFrac(_, _, _, _)
LessFrac(a, b, c, d) ==
    IF a \div b # c \div d THEN a \div b < c \div d
    ELSE IF c % d = 0 THEN FALSE
    ELSE IF a % b = 0 THEN TRUE
    ELSE LessFrac(d, c % d, b, a % b)

\* a < b as IEEE compares: false as soon as one side is nan
FLt(a, b) ==
    IF IsNaN(a) \/ IsNaN(b) THEN FALSE
    ELSE IF a.k = "inf" \/ b.k = "ninf" THEN FALSE
    ELSE IF a.k = "ninf" \/ b.k = "inf" THEN TRUE
    ELSE IF a.n < 0 /\ b.n >= 0 THEN TRUE
    ELSE IF a.n >= 0 /\ b.n < 0 THEN FALSE
    ELSE IF a.n < 0 THEN LessFrac(-b.n, b.d, -a.n, a.d)
    ELSE LessFrac(a.n, a.d, b.n, b.d)

FGt(a, b) == FLt(b, a)

FEq(a, b) ==
    IF IsNaN(a) \/ IsNaN(b) THEN FALSE
    ELSE IF IsZero(a) /\ IsZero(b) THEN TRUE
    ELSE a = b

\* numpy.exp(x): e**x for a rational x # 0 is kept symbolic, as kind "exp"
numpy_exp(x) ==
    CASE x.k = "nan"  -> NaN
      [] x.k = "inf"  -> PosInf
      [] x.k = "ninf" -> Zero
      [] IsZero(x)    -> One
      [] OTHER        -> [k |-> "exp", n |-> x.n, d |-> x.d]

\* numpy.log(x) of a nan, of 1 or of a value numpy.exp made
numpy_log(x) ==
    CASE x.k = "nan" -> NaN
      [] x.k = "exp" -> Fin(x.n, x.d)
      [] x = One     -> Zero

RECURSIVE FSum(_)
FSum(s) == IF s = <<>> THEN Zero ELSE FAdd(Head(s), FSum(Tail(s)))

----------------------------------------------------------------------------
(* Python indexing on arrays *)

\* a[i] for a valid 0-based index
At(a, i) == a[i + 1]

\* a[lo:hi] for lo >= 0; a negative hi counts from the end
Slice(a, lo, hi) ==
    LET h == IF hi < 0 THEN Len(a) + hi ELSE IF hi > Len(a) THEN Len(a) ELSE hi
    IN  IF h <= lo THEN <<>> ELSE SubSeq(a, lo + 1, h)

Range(s) == {s[i] : i \in DOMAIN s}

----------------------------------------------------------------------------
(* calculations/bet.py: transforms, regression, parameters *)

\* A number in scientific notation, m * 10**e10: the surface area and the
\* constants it is computed from span too many decades for one rational.
Sci(m, e10) == [m |-> m, e10 |-> e10]
SciMul(a, b) == Sci(FMul(a.m, b.m), a.e10 + b.e10)

\* scipy.constants.Avogadro, 6.022e23
Avogadro == Sci(Fin(3011, 500), 23)

\* loading * (1 - pressure), elementwise on arrays of one length
roq_transform(loading, pressure) ==
    [i \in 1..Len(loading) |-> FMul(loading[i], FSub(One, pressure[i]))]

\* pressure / roq_transform(loading, pressure), elementwise
bet_transform(loading, pressure) ==
    LET roq == roq_transform(loading, pressure)
    IN  [i \in 1..Len(pressure) |-> FDiv(pressure[i], roq[i])]

\* A correlation coefficient r is kept as its sign and its square, so that
\* it stays rational: r = sgn * sqrt(sq).
Corr(sgn, sq) == [k |-> "fin", sgn |-> sgn, sq |-> sq]
CorrNaN       == [k |-> "nan", sgn |-> 0, sq |-> Zero]

\* r < t for a rational threshold t > 0
CorrLess(r, t) ==
    /\ r.k = "fin"
    /\ (r.sgn <= 0 \/ FLt(r.sq, FMul(t, t)))

\* how scipy.stats.linregress treats two or more points that share one x:
\* "strict" builds raise ValueError, "legacy" builds divide 0 by 0
ScipyBuilds == {"strict", "legacy"}

NoFit == [raised |-> TRUE, slope |-> NaN, intercept |-> NaN, corr_coef |-> CorrNaN]

\* linregress from the second moments on: the slope, the intercept and r
linregress_result(xmean, ymean, ssxm, ssym, ssxym, points, build) ==
    IF points > 1 /\ IsZero(ssxm) /\ build = "strict" THEN NoFit
    ELSE [raised    |-> FALSE,
          slope     |-> FDiv(ssxym, ssxm),
          intercept |-> FSub(ymean, FMul(FDiv(ssxym, ssxm), xmean)),
          corr_coef |-> IF IsZero(ssxm) \/ IsZero(ssym)
                        THEN Corr(0, Zero)
                        ELSE Corr(IF IsZero(ssxym) THEN 0 ELSE FSign(ssxym),
                                  FMul(FDiv(ssxym, ssxm), FDiv(ssxym, ssym)))]

\* linregress from the deviations dx, dy from the means on
linregress_moments(dx, dy, xmean, ymean, n, build) ==
    linregress_result(xmean, ymean,
        FDiv(FSum([i \in 1..Len(dx) |-> FMul(dx[i], dx[i])]), n),
        FDiv(FSum([i \in 1..Len(dx) |-> FMul(dy[i], dy[i])]), n),
        FDiv(FSum([i \in 1..Len(dx) |-> FMul(dx[i], dy[i])]), n),
        Len(dx), build)

\* linregress from the means on
linregress_means(x, y, xmean, ymean, n, build) ==
    linregress_moments([i \in 1..Len(x) |-> FSub(x[i], xmean)],
                       [i \in 1..Len(y) |-> FSub(y[i], ymean)],
                       xmean, ymean, n, build)

\* scipy.stats.linregress(x, y): least squares over the points given
linregress(x, y, build) ==
    IF Len(x) = 0 THEN NoFit
    ELSE linregress_means(x, y, FDiv(FSum(x), Int2F(Len(x))),
                          FDiv(FSum(y), Int2F(Len(x))), Int2F(Len(x)), build)

\* Finds the slope and intercept of the BET region
bet_optimisation(pressure, bet_points, build) == linregress(pressure, bet_points, build)

\* 1 / (sqrt(c_const) + 1) is kept symbolic in c_const
PMonolayer(c_const) == [one_over_one_plus_sqrt_of |-> c_const]

\* Calculates the BET parameters from the slope and intercept
bet_parameters(slope, intercept, cross_section) ==
    LET c_const     == FAdd(FDiv(slope, intercept), One)
        n_monolayer == FDiv(One, FMul(intercept, c_const))
    IN  [n_monolayer |-> n_monolayer,
         p_monolayer |-> PMonolayer(c_const),
         c_const     |-> c_const,
         bet_area    |-> SciMul(SciMul(Sci(FMul(n_monolayer, cross_section), 0),
                                       Sci(One, -18)),
                                Avogadro)]

----------------------------------------------------------------------------
(* calculations/bet.py: area_BET_raw *)

NoLimits == [given |-> FALSE, low |-> Zero, high |-> Zero]
Limits(low, high) == [given |-> TRUE, low |-> low, high |-> high]

\* for index, value in enumerate(roq_t_array):
\*     if value > roq_t_array[index + 1]: maximum = index; break
\* Reading roq_t_array[index + 1] past the last element raises IndexError.
RECURSIVE first_decrease(_, _)
first_decrease(roq_t_array, index) ==
    IF index >= Len(roq_t_array)
    THEN [raised |-> FALSE, found |-> FALSE, index |-> 0]
    ELSE IF index + 1 >= Len(roq_t_array)
    THEN [raised |-> TRUE, found |-> FALSE, index |-> index]
    ELSE IF FGt(At(roq_t_array, index), At(roq_t_array, index + 1))
    THEN [raised |-> FALSE, found |-> TRUE, index |-> index]
    ELSE first_decrease(roq_t_array, index + 1)

\* first_above that also stops at a value equal to min_p
RECURSIVE first_at_or_above(_, _, _)
first_at_or_above(pressure, min_p, index) ==
    IF index >= Len(pressure) THEN -1
    ELSE IF ~FLt(At(pressure, index), min_p) THEN index
    ELSE first_at_or_above(pressure, min_p, index + 1)

\* for index, value in enumerate(pressure): if value > min_p: ... break
\* (-1 when the loop ends without a break)
RECURSIVE first_above(_, _, _)
first_above(pressure, min_p, index) ==
    IF index >= Len(pressure) THEN -1
    ELSE IF FGt(At(pressure, index), min_p) THEN index
    ELSE first_above(pressure, min_p, index + 1)

\* for index, value in reversed(list(enumerate(pressure))):
\*     if value < max_p: ... break
\* (-1 when the loop ends without a break)
RECURSIVE last_below(_, _, _)
last_below(pressure, max_p, index) ==
    IF index < 0 THEN -1
    ELSE IF FLt(At(pressure, index), max_p) THEN index
    ELSE last_below(pressure, max_p, index - 1)

\* region_minimum that defaults to the last index
region_minimum_last(pressure, min_p) ==
    IF first_above(pressure, min_p, 0) < 0 THEN Len(pressure) - 1
    ELSE first_above(pressure, min_p, 0)

\* the minimum of the region: the first index above min_p, 0 by default
region_minimum(pressure, min_p) ==
    LET found == first_above(pressure, min_p, 0)
    IN  IF found < 0 THEN 0 ELSE found

\* manual_maximum with the scan run forwards: the first index below max_p
manual_maximum_first(pressure, max_p) ==
    LET below == {i \in 0..(Len(pressure) - 1) : FLt(At(pressure, i), max_p)}
    IN  IF below = {} THEN Len(pressure) - 1
        ELSE CHOOSE i \in below : \A j \in below : i <= j

\* the maximum of a manual region: the last index below max_p, the last
\* index by default
manual_maximum(pressure, max_p) ==
    LET found == last_below(pressure, max_p, Len(pressure) - 1)
    IN  IF found < 0 THEN Len(pressure) - 1 ELSE found

\* "select the maximum and minimum of the points": the region the code
\* goes on with, or the IndexError it stops with
select_region(roq_t_array, pressure, limits) ==
    IF ~limits.given
    THEN LET scan    == first_decrease(roq_t_array, 0)
             maximum == IF scan.found THEN scan.index ELSE Len(roq_t_array) - 1
         IN  IF scan.raised \/ maximum < 0     \* pressure[-1] of an empty array
             THEN [raised |-> TRUE, minimum |-> 0, maximum |-> 0]
             ELSE [raised  |-> FALSE,
                   minimum |-> region_minimum(pressure,
                                   FDiv(At(pressure, maximum), Int2F(10))),
                   maximum |-> maximum]
    ELSE [raised  |-> FALSE,
          minimum |-> region_minimum(pressure, limits.low),
          maximum |-> manual_maximum(pressure, limits.high)]

WarnC    == "The C constant is negative"
WarnCorr == "The correlation is not linear"
WarnMono == "The monolayer point is not within the BET region"

\* consistency_warnings with the checks chained by elif: the first check
\* that fires hides the others
consistency_warnings_elif(c_const, corr_coef, loading, minimum, maximum, n_monolayer) ==
    IF FLt(c_const, Zero) THEN <<WarnC>>
    ELSE IF CorrLess(corr_coef, Fin(99, 100)) THEN <<WarnCorr>>
    ELSE IF FGt(At(loading, minimum), n_monolayer)
            \/ FLt(At(loading, maximum), n_monolayer)
    THEN <<WarnMono>>
    ELSE <<>>

\* "Checks for consistency": the warnings raised, in order
consistency_warnings(c_const, corr_coef, loading, minimum, maximum, n_monolayer) ==
    (IF FLt(c_const, Zero) THEN <<WarnC>> ELSE <<>>)
    \o (IF CorrLess(corr_coef, Fin(99, 100)) THEN <<WarnCorr>> ELSE <<>>)
    \o (IF FGt(At(loading, minimum), n_monolayer)
           \/ FLt(At(loading, maximum), n_monolayer)
        THEN <<WarnMono>> ELSE <<>>)

\* the tuple area_BET_raw returns
NoValue ==
    [bet_area |-> Sci(NaN, 0), c_const |-> NaN, n_monolayer |-> NaN,
     p_monolayer |-> PMonolayer(NaN), slope |-> NaN, intercept |-> NaN,
     minimum |-> 0, maximum |-> 0, corr_coef |-> CorrNaN]

\* an invocation that has not run
NotRun ==
    [outcome |-> "none", trace |-> <<>>, warnings |-> <<>>,
     selected |-> FALSE, minimum |-> 0, maximum |-> 0,
     fit_pressure |-> <<>>, fit_loading |-> <<>>, value |-> NoValue]

Raised(error, trace) == [NotRun EXCEPT !.outcome = error, !.trace = trace]

\* length_mismatch that only sees a pressure array that is too long
length_mismatch_longer(loading, pressure) == Len(pressure) > Len(loading)

\* if len(pressure) != len(loading): raise Exception(...)
length_mismatch(loading, pressure) == Len(pressure) # Len(loading)

\* area_BET_raw from bet_parameters on: the consistency checks and the return
area_BET_raw_return(selection, fit, par, loading) ==
    [selection EXCEPT
        !.outcome = "return",
        !.trace = <<"roq_transform", "select_region", "bet_transform",
                    "bet_optimisation", "bet_parameters">>,
        !.warnings = consistency_warnings(par.c_const, fit.corr_coef, loading,
                         selection.minimum, selection.maximum, par.n_monolayer),
        !.value = [bet_area    |-> par.bet_area,
                   c_const     |-> par.c_const,
                   n_monolayer |-> par.n_monolayer,
                   p_monolayer |-> par.p_monolayer,
                   slope       |-> fit.slope,
                   intercept   |-> fit.intercept,
                   minimum     |-> selection.minimum,
                   maximum     |-> selection.maximum,
                   corr_coef   |-> fit.corr_coef]]

\* area_BET_raw from the fit on
area_BET_raw_fitted(selection, fit, loading, cross_section) ==
    IF fit.raised
    THEN [selection EXCEPT
            !.outcome = "ValueError",
            !.trace = <<"roq_transform", "select_region", "bet_transform",
                        "bet_optimisation">>]
    ELSE area_BET_raw_return(selection, fit,
             bet_parameters(fit.slope, fit.intercept, cross_section), loading)

\* area_BET_raw from the selected slices on: bet_transform and the fit
area_BET_raw_selected(selection, loading, cross_section, build) ==
    area_BET_raw_fitted(selection,
        bet_optimisation(selection.fit_pressure,
                         bet_transform(selection.fit_loading,
                                       selection.fit_pressure),
                         build),
        loading, cross_section)

\* area_BET_raw from the region on: loading[minimum:maximum] and
\* pressure[minimum:maximum]
area_BET_raw_region(region, loading, pressure, cross_section, build) ==
    IF region.raised
    THEN Raised("IndexError", <<"roq_transform", "select_region">>)
    ELSE area_BET_raw_selected(
             [NotRun EXCEPT
                !.selected = TRUE,
                !.minimum = region.minimum, !.maximum = region.maximum,
                !.fit_pressure = Slice(pressure, region.minimum, region.maximum),
                !.fit_loading = Slice(loading, region.minimum, region.maximum)],
             loading, cross_section, build)

\* area_BET_raw(loading, pressure, cross_section, limits): what the call
\* does (trace, warnings, the region and the points fitted) and how it ends
area_BET_raw(loading, pressure, cross_section, limits, build) ==
    IF length_mismatch(loading, pressure)
    THEN Raised("Exception", <<>>)
    ELSE IF Len(loading) # Len(pressure)
    \* numpy: operands could not be broadcast together
    THEN Raised("ValueError", <<"roq_transform">>)
    ELSE area_BET_raw_region(
             select_region(roq_transform(loading, pressure), pressure, limits),
             loading, pressure, cross_section, build)

----------------------------------------------------------------------------
(* The isotherm and adsorbate collaborators of area_BET *)

\* Isotherm._MATERIAL_MODE and Isotherm._PRESSURE_MODE
MATERIAL_MODE == {"mass", "volume"}
PRESSURE_MODE == {"absolute", "relative"}

\* Isotherm.__init__: the modes of an isotherm, with the points of its
\* adsorption branch
Isotherm(mode_adsorbent, mode_pressure, pressure, loading) ==
    [mode_adsorbent |-> mode_adsorbent, mode_pressure |-> mode_pressure,
     pressure |-> pressure, loading |-> loading]

NoIsotherm == Isotherm("mass", "relative", <<>>, <<>>)

\* the saturation pressure p0 of the adsorbate at the temperature of the
\* experiment, in the unit of the isotherm
SaturationPressure == Fin(2, 1)

\* isotherm.convert_pressure_mode(mode_pressure): converts the isotherm in
\* place; nothing to do when it is in that mode already
convert_pressure_mode(iso, mode_pressure) ==
    IF iso.mode_pressure = mode_pressure THEN iso
    ELSE [iso EXCEPT
            !.mode_pressure = mode_pressure,
            !.pressure = [i \in 1..Len(iso.pressure) |->
                IF mode_pressure = "relative"
                THEN FDiv(iso.pressure[i], SaturationPressure)
                ELSE FMul(iso.pressure[i], SaturationPressure)]]

\* isotherm.loading(unit='mol', branch='ads')
isotherm_loading(iso) == iso.loading

\* isotherm.pressure(branch='ads')
isotherm_pressure(iso) == iso.pressure

\* Adsorbate.from_list(isotherm.adsorbate).get_prop("cross_sectional_area")
get_prop_cross_sectional_area(iso) == Fin(1, 5)

----------------------------------------------------------------------------
(* calculations/bet.py: area_BET *)

\* wrong_adsorbent_mode that only rejects a mode that does not exist
wrong_adsorbent_mode_unknown(iso) == iso.mode_adsorbent \notin MATERIAL_MODE

\* if isotherm.mode_adsorbent != "mass": raise Exception(...)
wrong_adsorbent_mode(iso) == iso.mode_adsorbent # "mass"

\* result_dict with slope and intercept swapped
result_dict_swapped(raw) ==
    [bet_area      |-> raw.bet_area,
     c_const       |-> raw.c_const,
     n_monolayer   |-> raw.n_monolayer,
     p_monolayer   |-> raw.p_monolayer,
     bet_slope     |-> raw.intercept,
     bet_intercept |-> raw.slope,
     corr_coef     |-> raw.corr_coef]

\* result_dict
result_dict(raw) ==
    [bet_area      |-> raw.bet_area,
     c_const       |-> raw.c_const,
     n_monolayer   |-> raw.n_monolayer,
     p_monolayer   |-> raw.p_monolayer,
     bet_slope     |-> raw.slope,
     bet_intercept |-> raw.intercept,
     corr_coef     |-> raw.corr_coef]

\* an area_BET invocation that has not run
NotCalled ==
    [op |-> "none", limits |-> NoLimits, verbose |-> FALSE,
     before |-> NoIsotherm, outcome |-> "none", trace |-> <<>>,
     raw |-> NotRun, result |-> result_dict(NoValue)]

\* int(round(x, 0)) fails on a nan (ValueError) or an infinity (OverflowError)
int_round_error(x) ==
    IF IsNaN(x) THEN "ValueError" ELSE IF IsInf(x) THEN "OverflowError" ELSE "none"

\* "if verbose:": the prints and the two plots, or the error a print stops at
verbose_report(value) ==
    IF int_round_error(value.c_const) # "none"
    THEN [outcome |-> int_round_error(value.c_const), trace |-> <<"print">>]
    ELSE IF int_round_error(value.bet_area.m) # "none"
    THEN [outcome |-> int_round_error(value.bet_area.m), trace |-> <<"print">>]
    ELSE [outcome |-> "return", trace |-> <<"print", "bet_plot", "roq_plot">>]

\* "if isotherm.mode_pressure != 'relative': isotherm.convert_pressure_mode(
\* 'relative')": the isotherm as the rest of area_BET sees it
as_relative(iso) ==
    IF iso.mode_pressure # "relative"
    THEN convert_pressure_mode(iso, "relative")
    ELSE iso

\* the collaborators area_BET calls up to and including area_BET_raw
area_BET_reads(iso) ==
    (IF iso.mode_pressure # "relative" THEN <<"convert_pressure_mode">> ELSE <<>>)
    \o <<"Adsorbate.from_list", "get_prop", "loading", "pressure", "area_BET_raw">>

\* area_BET from the return of area_BET_raw on: result_dict, the verbose
\* report and the return
area_BET_return(entry, relative, reads, raw, verbose) ==
    LET report == verbose_report(raw.value)
    IN  IF raw.outcome # "return"
        THEN [isotherm |-> relative,
              call |-> [entry EXCEPT !.outcome = raw.outcome, !.trace = reads,
                                     !.raw = raw]]
        ELSE IF verbose /\ report.outcome # "return"
        THEN [isotherm |-> relative,
              call |-> [entry EXCEPT !.outcome = report.outcome,
                                     !.trace = reads \o report.trace,
                                     !.raw = raw]]
        ELSE [isotherm |-> relative,
              call |-> [entry EXCEPT
                          !.outcome = "return",
                          !.trace = reads \o (IF verbose THEN report.trace ELSE <<>>),
                          !.raw = raw,
                          !.result = result_dict(raw.value)]]

\* area_BET from the reads of the isotherm on: the call of area_BET_raw, which
\* is handed loading, pressure and cross_section and not the limits
area_BET_calculate(entry, relative, reads, verbose, build) ==
    area_BET_return(entry, relative, reads,
                    area_BET_raw(isotherm_loading(relative),
                                 isotherm_pressure(relative),
                                 get_prop_cross_sectional_area(relative),
                                 NoLimits, build),
                    verbose)

\* area_BET(isotherm, limits, verbose): the isotherm it leaves and what the
\* call did and returned
area_BET(iso, limits, verbose, build) ==
    IF wrong_adsorbent_mode(iso)
    THEN [isotherm |-> iso,
          call |-> [NotCalled EXCEPT !.op = "area_BET", !.limits = limits,
                                     !.verbose = verbose, !.before = iso,
                                     !.outcome = "Exception"]]
    ELSE area_BET_calculate([NotCalled EXCEPT !.op = "area_BET",
                                              !.limits = limits,
                                              !.verbose = verbose,
                                              !.before = iso],
                            as_relative(iso), area_BET_reads(iso), verbose, build)

----------------------------------------------------------------------------
(* calculations/models_isotherm/henry.py *)

\* Henry.__init__: self.params = {"KH": numpy.nan}
henry_init == [KH |-> NaN]

\* Henry.loading
henry_loading(params, pressure) == FMul(params.KH, pressure)

\* Henry.pressure that multiplies where it has to divide
henry_pressure_times(params, loading) == FMul(loading, params.KH)

\* Henry.pressure
henry_pressure(params, loading) == FDiv(loading, params.KH)

\* Henry.spreading_pressure
henry_spreading_pressure(params, pressure) == FMul(params.KH, pressure)

\* Henry.default_guess
henry_default_guess(saturation_loading, langmuir_k) ==
    [KH |-> FMul(saturation_loading, langmuir_k)]

----------------------------------------------------------------------------
(* calculations/models_isotherm/virial.py *)

\* Virial.__init__
virial_init == [KH |-> NaN, A |-> NaN, B |-> NaN, C |-> NaN]

\* m * numpy.exp(e), kept symbolic
MulExp(m, e) == [m |-> m, e |-> e]

\* Virial.pressure
virial_pressure(params, loading) ==
    MulExp(loading,
           FAdd(FAdd(FAdd(FNeg(numpy_log(params.KH)), FMul(params.A, loading)),
                     FMul(params.B, FMul(loading, loading))),
                FMul(params.C, FMul(loading, FMul(loading, loading)))))

\* Virial.loading: scipy.optimize.minimize is run for one pressure point
\* after the other; opt_res[i] is what it reports for point i.  The first
\* point it fails on raises CalculationError with its message.
RECURSIVE first_failure(_, _)
first_failure(opt_res, i) ==
    IF i > Len(opt_res) THEN 0
    ELSE IF ~opt_res[i].success THEN i
    ELSE first_failure(opt_res, i + 1)

\* fit(p_point) of a run that converged: opt_res.x, the loading found for
\* p_point
Minimum(p_point, x) == [p_point |-> p_point, x |-> x]

\* the runs of the minimizer Virial.loading makes: one per point, up to and
\* including the first that fails
minimizer_runs(opt_res) ==
    IF first_failure(opt_res, 1) = 0 THEN opt_res
    ELSE SubSeq(opt_res, 1, first_failure(opt_res, 1))

\* Virial.loading that skips the points that did not converge and returns
\* the loadings of the others
virial_loading_partial(pressure, opt_res) ==
    [outcome |-> "return", message |-> "", runs |-> opt_res,
     ret |-> SelectSeq([i \in 1..Len(pressure) |->
                           IF opt_res[i].success
                           THEN Minimum(pressure[i], opt_res[i].x)
                           ELSE Minimum(NaN, NaN)],
                       LAMBDA m : ~IsNaN(m.x))]

virial_loading(pressure, opt_res) ==
    LET failed == first_failure(opt_res, 1)
    IN  IF failed # 0
        THEN [outcome |-> "CalculationError", message |-> opt_res[failed].message,
              runs |-> minimizer_runs(opt_res), ret |-> <<>>]
        ELSE [outcome |-> "return", message |-> "",
              runs |-> minimizer_runs(opt_res),
              ret |-> [i \in 1..Len(pressure) |->
                          Minimum(pressure[i], opt_res[i].x)]]

\* Virial.default_guess, from what the base class estimates
virial_default_guess(saturation_loading, langmuir_k) ==
    [KH |-> FMul(saturation_loading, langmuir_k), A |-> Zero, B |-> Zero, C |-> Zero]

\* Virial.fit: the params assigned from virial_constants = numpy.polyfit(...)[0],
\* highest power first
virial_fit_params(virial_constants) ==
    [KH |-> numpy_exp(FNeg(virial_constants[4])),
     A  |-> virial_constants[3],
     B  |-> virial_constants[2],
     C  |-> virial_constants[1]]

\* Virial.fit with params a dictionary of the class: every Virial instance
\* sees the assignment
virial_fit_shared(all, id, virial_constants) ==
    [i \in DOMAIN all |->
        IF all[i].name = "Virial"
        THEN [all[i] EXCEPT !.params = virial_fit_params(virial_constants)]
        ELSE all[i]]

\* Virial.fit on instance id: only that instance's params are assigned
virial_fit(all, id, virial_constants) ==
    [all EXCEPT ![id] = [@ EXCEPT !.params = virial_fit_params(virial_constants)]]

\* numpy.sqrt(full_info[1] / len(pressure)), kept symbolic
Rmse(residuals, n) == [sqrt_of |-> FDiv(residuals, Int2F(n))]

----------------------------------------------------------------------------
(* The data the model runs on *)

\* relative pressures p/p0 of the measured points
PressureValues == {Fin(1, 25), Fin(1, 5), Fin(2, 5), Fin(3, 5)}

\* loadings of the measured points, in mol
LoadingValues == {Int2F(1), Int2F(2), Int2F(3)}

\* cross-sectional area of the adsorbate, in nm2
CrossSection == get_prop_cross_sectional_area(NoIsotherm)

\* manual limits: an interval, one that starts below every point, one above
\* every point and an inverted one that ends below every point
LimitValues ==
    {NoLimits,
     Limits(Fin(1, 10), Fin(1, 2)),
     Limits(Zero, Fin(1, 4)),
     Limits(Fin(4, 5), Fin(9, 10)),
     Limits(Fin(1, 2), Fin(1, 100))}

\* the limits tried on arrays of different lengths
MismatchLimitValues == {NoLimits, Limits(Fin(1, 10), Fin(1, 2))}

\* the limits a caller hands to area_BET
IsothermLimitValues ==
    {NoLimits, Limits(Fin(1, 10), Fin(1, 2)), Limits(Zero, Fin(1, 4))}

\* arrays of n values
Arrays(values, n) == [1..n -> values]

\* arrays of n pressures as a branch records them: never decreasing
PressureArrays(n) ==
    {p \in Arrays(PressureValues, n) : \A i \in 1..(n - 1) : ~FLt(p[i + 1], p[i])}

\* relative pressures of the points of an isotherm
IsothermPressureValues == PressureValues \cup {Fin(1, 10)}

\* arrays of n pressures of the adsorption branch of an isotherm, measured
\* at increasing pressure
IsothermPressureArrays(n) ==
    {p \in Arrays(IsothermPressureValues, n) :
        \A i \in 1..(n - 1) : FLt(p[i], p[i + 1])}

\* the array of n pressures that are all zero: the one on which no pressure
\* exceeds a tenth of another
ZeroPressureArrays(n) == {[i \in 1..n |-> Zero]}

\* the lengths a loading array is given besides a pressure array of length n
LoadingLengths(n) == {m \in {n - 1, n, n + 1} : m >= 0 /\ m <= MaxLen}

NoArgs == [loading |-> <<>>, pressure |-> <<>>, cross_section |-> Zero,
           limits |-> NoLimits]

----------------------------------------------------------------------------
(* SpecModel: the operations of Henry and Virial instances *)

\* the model instances: one Henry, two Virial
HenryIds  == {"henry"}
VirialIds == {"virial1", "virial2"}
ModelIds  == HenryIds \cup VirialIds

NoModels == [id \in ModelIds |->
               IF id \in HenryIds THEN [name |-> "Henry", params |-> henry_init]
               ELSE [name |-> "Virial", params |-> virial_init]]

\* KH of the Henry instance: as constructed, or as the caller seeded it
HenryKHValues == {NaN, Zero, Fin(2, 1), Fin(1, 3), Fin(-3, 2)}

\* pressures and loadings the model operations are asked for
PointValues == {Zero, Fin(1, 2), Fin(3, 1)}

\* what the base class estimates for default_guess
GuessValues == {Fin(1, 2), Fin(2, 1)}

\* coefficients numpy.polyfit returns, highest power first
PolyfitValues ==
    {<<Zero, Zero, Zero, Zero>>,
     <<Fin(1, 10), Fin(-1, 2), Fin(2, 1), Fin(-1, 1)>>}

\* what scipy.optimize.minimize reports for one pressure point
OptimizeResults ==
    {[success |-> TRUE, x |-> Fin(1, 2), message |-> "Optimization terminated successfully."],
     [success |-> FALSE, x |-> Fin(1, 2), message |-> "Maximum number of iterations has been exceeded."]}

\* the pressures Virial.loading is asked for: any of PointValues alone, two
\* of them in the vectors of two points or more
LoadingPressures(n) ==
    IF n = 1 THEN Arrays(PointValues, 1)
    ELSE Arrays(PointValues \ {Zero}, n)

\* what the minimizer reports in a call of Virial.loading on n points: a
\* report per run, the runs ending with the first that does not converge
MinimizerReports(n) ==
    {r \in UNION {Arrays(OptimizeResults, k) : k \in 1..n} :
        /\ \A i \in 1..(Len(r) - 1) : r[i].success
        /\ (Len(r) = n \/ ~r[Len(r)].success)}

\* longest vector of pressures handed to Virial.loading
MaxPoints == 2

NoOp == [op |-> "none", id |-> "none", outcome |-> "none", arg |-> <<>>,
         ret |-> <<>>, chained |-> FALSE, chain_arg |-> Zero]

Op(op, id, outcome, arg, ret) ==
    [NoOp EXCEPT !.op = op, !.id = id, !.outcome = outcome, !.arg = arg, !.ret = ret]

InitModel ==
    /\ \E kh \in HenryKHValues :
         models = [NoModels EXCEPT !["henry"].params = [KH |-> kh]]
    /\ last = NoOp
    /\ isotherm = NoIsotherm
    /\ call = NotCalled
    /\ rawargs = NoArgs
    /\ rawret = NotRun

Frame == UNCHANGED <<isotherm, call, rawargs, rawret>>

HenryLoading ==
    /\ \E id \in HenryIds : \E p \in PointValues :
         last' = Op("Henry.loading", id, "return", p,
                    henry_loading(models[id].params, p))
    /\ UNCHANGED models
    /\ Frame

\* pressure(loading): of a loading asked for, or of the loading that
\* loading(p) has just returned
HenryPressure ==
    /\ \E id \in HenryIds :
         \E chained \in (IF last.op = "Henry.loading" /\ last.id = id
                         THEN BOOLEAN ELSE {FALSE}) :
           \E l \in (IF chained THEN {last.ret} ELSE PointValues) :
             \* a Python float divided by 0.0 raises, a numpy float does not
             \E raises \in (IF IsZero(models[id].params.KH) THEN BOOLEAN ELSE {FALSE}) :
               last' = [Op("Henry.pressure", id,
                           IF raises THEN "ZeroDivisionError" ELSE "return", l,
                           IF raises THEN NaN
                           ELSE henry_pressure(models[id].params, l))
                        EXCEPT !.chained = chained,
                               !.chain_arg = IF chained THEN last.arg ELSE Zero]
    /\ UNCHANGED models
    /\ Frame

HenrySpreadingPressure ==
    /\ \E id \in HenryIds : \E p \in PointValues :
         last' = Op("Henry.spreading_pressure", id, "return", p,
                    henry_spreading_pressure(models[id].params, p))
    /\ UNCHANGED models
    /\ Frame

HenryDefaultGuess ==
    /\ \E id \in HenryIds : \E sl \in GuessValues : \E k \in GuessValues :
         last' = Op("Henry.default_guess", id, "return", <<sl, k>>,
                    henry_default_guess(sl, k))
    /\ UNCHANGED models
    /\ Frame

VirialLoading ==
    /\ \E id \in VirialIds : \E n \in 1..MaxPoints :
         \E pressure \in LoadingPressures(n) :
           \E opt_res \in MinimizerReports(n) :
             LET done == virial_loading(pressure, opt_res)
             IN  last' = Op("Virial.loading", id, done.outcome, pressure,
                            [message |-> done.message, loading |-> done.ret,
                             runs |-> done.runs])
    /\ UNCHANGED models
    /\ Frame

VirialPressure ==
    /\ \E id \in VirialIds : \E l \in PointValues :
         last' = Op("Virial.pressure", id, "return", l,
                    virial_pressure(models[id].params, l))
    /\ UNCHANGED models
    /\ Frame

VirialSpreadingPressure ==
    /\ \E id \in VirialIds : \E p \in PointValues :
         last' = Op("Virial.spreading_pressure", id, "NotImplementedError", p, <<>>)
    /\ UNCHANGED models
    /\ Frame

VirialDefaultGuess ==
    /\ \E id \in VirialIds : \E sl \in GuessValues : \E k \in GuessValues :
         last' = Op("Virial.default_guess", id, "return", <<sl, k>>,
                    virial_default_guess(sl, k))
    /\ UNCHANGED models
    /\ Frame

\* fit on data of n points; numpy.polyfit raises on data it cannot fit,
\* before any parameter is assigned
VirialFit ==
    /\ \E id \in VirialIds : \E n \in 1..MaxPoints :
         \/ \E vc \in PolyfitValues : \E residuals \in GuessValues :
              /\ models' = virial_fit(models, id, vc)
              /\ last' = Op("Virial.fit", id, "return", n, Rmse(residuals, n))
         \/ /\ UNCHANGED models
            /\ last' = Op("Virial.fit", id, "LinAlgError", n, <<>>)
    /\ Frame

NextModel ==
    \/ HenryLoading
    \/ HenryPressure
    \/ HenrySpreadingPressure
    \/ HenryDefaultGuess
    \/ VirialLoading
    \/ VirialPressure
    \/ VirialSpreadingPressure
    \/ VirialDefaultGuess
    \/ VirialFit

SpecModel == InitModel /\ [][NextModel]_vars

----------------------------------------------------------------------------
(* SpecRaw: area_BET_raw applied to arrays *)

InitRaw ==
    /\ \E n \in 0..MaxLen : \E m \in LoadingLengths(n) :
         \E p \in PressureArrays(n) \cup ZeroPressureArrays(n) :
         \E l \in Arrays(LoadingValues, m) :
           \E lim \in (IF m = n THEN LimitValues ELSE MismatchLimitValues) :
             rawargs = [loading |-> l, pressure |-> p,
                        cross_section |-> CrossSection, limits |-> lim]
    /\ rawret = NotRun
    /\ isotherm = NoIsotherm
    /\ call = NotCalled
    /\ models = NoModels
    /\ last = NoOp

CallAreaBETRaw ==
    /\ rawret.outcome = "none"
    /\ \E build \in ScipyBuilds :
         rawret' = area_BET_raw(rawargs.loading, rawargs.pressure,
                                rawargs.cross_section, rawargs.limits, build)
    /\ UNCHANGED <<rawargs, isotherm, call, models, last>>

NextRaw == CallAreaBETRaw

SpecRaw == InitRaw /\ [][NextRaw]_vars

----------------------------------------------------------------------------
(* Spec: area_BET applied to an isotherm *)

\* the pressures an isotherm holds for relative pressures p, in its mode
InMode(mode_pressure, p) ==
    IF mode_pressure = "relative" THEN p
    ELSE [i \in 1..Len(p) |-> FMul(p[i], SaturationPressure)]

Init ==
    /\ \E ma \in MATERIAL_MODE : \E mp \in PRESSURE_MODE :
         \E n \in 0..MaxIsoLen :
           \E p \in IsothermPressureArrays(n) : \E l \in Arrays(LoadingValues, n) :
             isotherm = Isotherm(ma, mp, InMode(mp, p), l)
    /\ call = NotCalled
    /\ rawargs = NoArgs
    /\ rawret = NotRun
    /\ models = NoModels
    /\ last = NoOp

CallAreaBET ==
    /\ call.op = "none"
    /\ \E limits \in IsothermLimitValues : \E verbose \in BOOLEAN :
         \E build \in ScipyBuilds :
           LET done == area_BET(isotherm, limits, verbose, build)
           IN  /\ isotherm' = done.isotherm
               /\ call' = done.call
    /\ UNCHANGED <<rawargs, rawret, models, last>>

Next == CallAreaBET

Spec == Init /\ [][Next]_vars

----------------------------------------------------------------------------
(* Claims about area_BET (checked under Spec) *)

\* the relative pressures whose indices lie strictly inside manual limits
PointsInside(pressure, limits) ==
    {i \in 1..Len(pressure) :
        FLt(limits.low, pressure[i]) /\ FLt(pressure[i], limits.high)}

\* C1: area_BET leaves a 'mass' isotherm as the caller handed it over,
\* whatever its pressure mode.
C1_IsothermNotMutated ==
    (call.op = "area_BET" /\ call.before.mode_adsorbent = "mass")
        => isotherm = call.before

\* C2: when the caller passes manual limits, the region area_BET fits is
\* the one the manual selection derives from those limits.
C2_ManualLimitsSelectRegion ==
    (call.op = "area_BET" /\ call.limits.given /\ call.raw.selected)
        => LET pressure == isotherm_pressure(isotherm)
               loading  == isotherm_loading(isotherm)
               region   == select_region(roq_transform(loading, pressure),
                                         pressure, call.limits)
           IN  /\ call.raw.minimum = region.minimum
               /\ call.raw.maximum = region.maximum

\* C3: on an isotherm that is not per mass of adsorbent area_BET raises
\* before anything else: no conversion, no read, no computation, no result,
\* and the isotherm is as it was.
C3_WrongModeFailsFast ==
    (call.op = "area_BET" /\ call.before.mode_adsorbent # "mass")
        => /\ call.outcome = "Exception"
           /\ call.trace = <<>>
           /\ call.raw = NotRun
           /\ call.result = result_dict(NoValue)
           /\ isotherm = call.before

\* C3 witness: area_BET was called on a 'volume' isotherm in absolute
\* pressure mode that holds points.
C3_Witness ==
    /\ call.op = "area_BET"
    /\ call.before.mode_adsorbent = "volume"
    /\ call.before.mode_pressure = "absolute"
    /\ Len(call.before.pressure) >= 2
    /\ call.verbose

ResultKeys ==
    {"bet_area", "c_const", "n_monolayer", "p_monolayer", "bet_slope",
     "bet_intercept", "corr_coef"}

\* C8 as stated: the record area_BET returns holds the region indices
\* besides the seven results.
C8_ResultHoldsRegion ==
    call.outcome = "return"
        => ResultKeys \cup {"minimum", "maximum"} \subseteq DOMAIN call.result

\* C8 as amended: the record area_BET returns holds exactly bet_area,
\* c_const, n_monolayer, p_monolayer, bet_slope, bet_intercept and
\* corr_coef, each as area_BET_raw returned it; the region indices are in
\* the tuple of area_BET_raw only.
C8_ResultRecord ==
    call.outcome = "return"
        => /\ DOMAIN call.result = ResultKeys
           /\ call.raw.outcome = "return"
           /\ call.result.bet_area = call.raw.value.bet_area
           /\ call.result.c_const = call.raw.value.c_const
           /\ call.result.n_monolayer = call.raw.value.n_monolayer
           /\ call.result.p_monolayer = call.raw.value.p_monolayer
           /\ call.result.bet_slope = call.raw.value.slope
           /\ call.result.bet_intercept = call.raw.value.intercept
           /\ call.result.corr_coef = call.raw.value.corr_coef
           /\ call.raw.value.minimum = call.raw.minimum
           /\ call.raw.value.maximum = call.raw.maximum

\* C8 witness: area_BET returned the results of a fit whose slope and
\* intercept differ.
C8_Witness ==
    /\ call.outcome = "return"
    /\ IsFinite(call.result.bet_slope)
    /\ IsFinite(call.result.bet_intercept)
    /\ call.result.bet_slope # call.result.bet_intercept
    /\ call.raw.minimum < call.raw.maximum

----------------------------------------------------------------------------
(* Claims about area_BET_raw (checked under SpecRaw) *)

\* C4: arrays of different lengths make area_BET_raw raise before anything
\* is computed: no transform, no region, no regression, no warning, no
\* result.
C4_LengthMismatchFailsFast ==
    (rawret.outcome # "none" /\ Len(rawargs.pressure) # Len(rawargs.loading))
        => rawret = Raised("Exception", <<>>)

\* C4 witness: area_BET_raw ran on fewer pressures than loadings.
C4_Witness ==
    /\ rawret.outcome # "none"
    /\ Len(rawargs.pressure) >= 2
    /\ Len(rawargs.pressure) < Len(rawargs.loading)

\* C5: every region selected on arrays of n >= 2 points satisfies
\* 0 <= minimum < maximum <= n - 1.
C5_RegionWellFormed ==
    (rawret.selected /\ Len(rawargs.pressure) >= 2)
        => /\ 0 <= rawret.minimum
           /\ rawret.minimum < rawret.maximum
           /\ rawret.maximum <= Len(rawargs.pressure) - 1

\* C6: once the BET parameters are computed the call returns the full
\* tuple, and the warnings raised are exactly those of the checks whose
\* condition holds, each once.
C6_ChecksIndependent ==
    (\E i \in DOMAIN rawret.trace : rawret.trace[i] = "bet_parameters")
        => LET v == rawret.value
               w == Range(rawret.warnings)
           IN  /\ rawret.outcome = "return"
               /\ (WarnC \in w) <=> FLt(v.c_const, Zero)
               /\ (WarnCorr \in w) <=> CorrLess(v.corr_coef, Fin(99, 100))
               /\ (WarnMono \in w) <=>
                    (\/ FGt(At(rawargs.loading, v.minimum), v.n_monolayer)
                     \/ FLt(At(rawargs.loading, v.maximum), v.n_monolayer))
               /\ w \subseteq {WarnC, WarnCorr, WarnMono}
               /\ Len(rawret.warnings) = Cardinality(w)
               /\ v.minimum = rawret.minimum /\ v.maximum = rawret.maximum
               /\ v.c_const = bet_parameters(v.slope, v.intercept,
                                             rawargs.cross_section).c_const

\* C6 witness: a call that returned with all three warnings raised.
C6_Witness ==
    /\ rawret.outcome = "return"
    /\ Len(rawret.warnings) = 3

\* C7: manual limits whose interval holds at least two of the points select
\* a region with minimum < maximum.
C7_ManualRegionOrdered ==
    (/\ rawret.selected
     /\ rawargs.limits.given
     /\ Cardinality(PointsInside(rawargs.pressure, rawargs.limits)) >= 2)
        => rawret.minimum < rawret.maximum

\* C7 witness: a manual selection on an interval holding two points, with
\* points outside it on both sides.
C7_Witness ==
    /\ rawret.selected
    /\ rawargs.limits.given
    /\ Cardinality(PointsInside(rawargs.pressure, rawargs.limits)) >= 2
    /\ rawret.minimum > 0
    /\ rawret.maximum < Len(rawargs.pressure) - 1

----------------------------------------------------------------------------
(* Claims about the isotherm models (checked under SpecModel) *)

\* C9: params of an instance change only in a fit of that very instance:
\* loading, pressure, spreading_pressure and default_guess leave every
\* params as it is, also when they fail; the Henry instance, which has no
\* fit of its own, never changes; a fit changes no other instance.
C9_ParamsOnlyByFit ==
    [][\A id \in ModelIds :
         models'[id] # models[id]
            => /\ models[id].name = "Virial"
               /\ last'.op = "Virial.fit"
               /\ last'.id = id
               /\ last'.outcome = "return"]_vars

\* C9 witness: one Virial instance is fitted, the other is as constructed,
\* and a loading call has just failed.
C9_Witness ==
    /\ models["virial1"].params # virial_init
    /\ models["virial2"].params = virial_init
    /\ last.op = "Virial.loading"
    /\ last.outcome = "CalculationError"

\* pressure(loading(p)) was just computed on the Henry instance id
HenryRoundTrip(id) ==
    /\ last.op = "Henry.pressure"
    /\ last.id = id
    /\ last.chained
    /\ last.outcome = "return"

\* C10 as stated: for every KH != 0, pressure(loading(p)) == p.
C10_HenryInverse ==
    \A id \in HenryIds :
        (HenryRoundTrip(id) /\ ~FEq(models[id].params.KH, Zero))
            => FEq(last.ret, last.chain_arg)

\* C10 as amended: for every finite KH != 0 (so not the nan a Henry
\* instance is constructed with), pressure(loading(p)) == p.
C10_HenryInverseFinite ==
    \A id \in HenryIds :
        (/\ HenryRoundTrip(id)
         /\ IsFinite(models[id].params.KH)
         /\ ~IsZero(models[id].params.KH))
            => FEq(last.ret, last.chain_arg)

\* C10 witness: pressure(loading(p)) computed for p # 0 with a KH that is
\* neither 0 nor 1.
C10_Witness ==
    /\ HenryRoundTrip("henry")
    /\ IsFinite(models["henry"].params.KH)
    /\ ~IsZero(models["henry"].params.KH)
    /\ models["henry"].params.KH # One
    /\ ~IsZero(last.chain_arg)


\* C11: Virial.loading raises CalculationError with the minimizer's message
\* as soon as a run of the minimizer does not converge, and then returns no
\* loading at all; when every run converges it returns one loading per
\* pressure asked for, each the one found for that pressure, in their order.
C11_LoadingAllOrNothing ==
    last.op = "Virial.loading"
        => LET runs == last.ret.runs
               pressure == last.arg
           IN  IF \E i \in DOMAIN runs : ~runs[i].success
               THEN /\ last.outcome = "CalculationError"
                    /\ last.ret.loading = <<>>
                    /\ ~runs[Len(runs)].success
                    /\ last.ret.message = runs[Len(runs)].message
                    /\ last.ret.message # ""
               ELSE /\ last.outcome = "return"
                    /\ Len(runs) = Len(pressure)
                    /\ Len(last.ret.loading) = Len(pressure)
                    /\ \A i \in DOMAIN pressure :
                         last.ret.loading[i] = Minimum(pressure[i], runs[i].x)

\* C11 witness: of two different pressures asked for, the first converged and
\* the second did not.
C11_Witness ==
    /\ last.op = "Virial.loading"
    /\ Len(last.arg) = 2
    /\ last.arg[1] # last.arg[2]
    /\ Len(last.ret.runs) = 2
    /\ last.ret.runs[1].success
    /\ ~last.ret.runs[2].success
    /\ last.outcome = "CalculationError"


----------------------------------------------------------------------------
(* Claims about the region area_BET_raw selects (checked under SpecRaw) *)

\* the Roquerol array of the arrays area_BET_raw was called on
RoqOfArgs == roq_transform(rawargs.loading, rawargs.pressure)

\* the indices at which the Roquerol array decreases towards its successor
Decreases(roq) ==
    {i \in 0..(Len(roq) - 2) : FGt(At(roq, i), At(roq, i + 1))}

\* the call ran past the length check on n points
RanOn(n) ==
    /\ rawret.outcome # "none"
    /\ Len(rawargs.loading) = Len(rawargs.pressure)
    /\ Len(rawargs.pressure) >= n

\* C12: without limits, on n >= 1 points, the maximum selected is the first
\* index at which the Roquerol array decreases, and the last index n - 1
\* when it decreases nowhere.
C12_AutoMaximum ==
    (RanOn(1) /\ ~rawargs.limits.given)
        => /\ rawret.selected
           /\ rawret.maximum =
                (IF Decreases(RoqOfArgs) = {} THEN Len(rawargs.pressure) - 1
                 ELSE CHOOSE i \in Decreases(RoqOfArgs) :
                        \A j \in Decreases(RoqOfArgs) : i <= j)


\* the points of array a at the indices lo, lo + 1, ..., hi
Inclusive(a, lo, hi) == [i \in 1..(hi - lo + 1) |-> At(a, lo + i - 1)]

\* C13: the BET transform and the regression run on exactly the points at
\* the indices minimum, ..., maximum of the region selected, both ends
\* included: maximum - minimum + 1 points.
C13_FitOverInclusiveRegion ==
    (RanOn(1) /\ rawret.selected /\ rawret.minimum <= rawret.maximum)
        => /\ Len(rawret.fit_pressure) = rawret.maximum - rawret.minimum + 1
           /\ rawret.fit_pressure =
                Inclusive(rawargs.pressure, rawret.minimum, rawret.maximum)
           /\ rawret.fit_loading =
                Inclusive(rawargs.loading, rawret.minimum, rawret.maximum)


\* the indices whose pressure lies above low, and those whose pressure lies
\* below high
IndicesAbove(pressure, low) ==
    {i \in 0..(Len(pressure) - 1) : FGt(At(pressure, i), low)}
IndicesBelow(pressure, high) ==
    {i \in 0..(Len(pressure) - 1) : FLt(At(pressure, i), high)}

\* C14: with limits (low, high) the maximum selected is the largest index
\* whose pressure is below high, the last index when there is none, and the
\* minimum is the smallest index whose pressure is above low, 0 when there
\* is none.
C14_ManualRegion ==
    (RanOn(1) /\ rawargs.limits.given)
        => LET above == IndicesAbove(rawargs.pressure, rawargs.limits.low)
               below == IndicesBelow(rawargs.pressure, rawargs.limits.high)
           IN  /\ rawret.selected
               /\ rawret.maximum =
                    (IF below = {} THEN Len(rawargs.pressure) - 1
                     ELSE CHOOSE i \in below : \A j \in below : j <= i)
               /\ rawret.minimum =
                    (IF above = {} THEN 0
                     ELSE CHOOSE i \in above : \A j \in above : i <= j)

\* C14 witness: limits that start above every one of three or more points,
\* so that the minimum is the default, and end above some point, so that the
\* maximum is an index found.
C14_Witness ==
    /\ RanOn(3)
    /\ rawargs.limits.given
    /\ IndicesAbove(rawargs.pressure, rawargs.limits.low) = {}
    /\ IndicesBelow(rawargs.pressure, rawargs.limits.high) # {}
    /\ rawret.minimum = 0
    /\ rawret.maximum = Len(rawargs.pressure) - 1


\* C15: without limits, the minimum selected is the first index whose
\* pressure exceeds a tenth of the pressure at the maximum, and 0 when no
\* pressure does; every index below the minimum has a pressure of at most
\* that tenth.
C15_AutoMinimum ==
    (RanOn(1) /\ ~rawargs.limits.given /\ rawret.selected)
        => LET min_p == FDiv(At(rawargs.pressure, rawret.maximum), Int2F(10))
               above == IndicesAbove(rawargs.pressure, min_p)
           IN  /\ rawret.minimum =
                    (IF above = {} THEN 0
                     ELSE CHOOSE i \in above : \A j \in above : i <= j)
               /\ \A i \in 0..(rawret.minimum - 1) :
                    ~FGt(At(rawargs.pressure, i), min_p)

\* C15 witness: a minimum above 0 that skips a pressure of exactly a tenth
\* of the pressure at the maximum.
C15_Witness ==
    /\ RanOn(3)
    /\ ~rawargs.limits.given
    /\ rawret.selected
    /\ rawret.minimum > 0
    /\ rawret.minimum < rawret.maximum
    /\ FEq(At(rawargs.pressure, 0),
           FDiv(At(rawargs.pressure, rawret.maximum), Int2F(10)))


\* C16: whenever area_BET_raw returns a region without raising a warning,
\* the Roquerol array increases strictly over the indices minimum, ...,
\* maximum of the region.
C16_RoquerolIncreasing ==
    (RanOn(1) /\ rawret.outcome = "return" /\ rawret.warnings = <<>>)
        => \A i \in rawret.minimum..(rawret.maximum - 1) :
             FLt(At(RoqOfArgs, i), At(RoqOfArgs, i + 1))

====
